---- MODULE Spec2Model ----
(***************************************************************************)
(* Shrdlite blocks world: the goal resolver (Interpreter) and the planner  *)
(* (Planner).  WorldState = stacks (bottom-to-top columns), arm (0-based   *)
(* column index) and holding (an object key or null).                      *)
(***************************************************************************)
EXTENDS Integers, Sequences, FiniteSets, TLC

VARIABLES
    stacks,     \* WorldState.stacks: sequence of columns, column i is stacks[i+1]
    arm,        \* WorldState.arm: 0-based column index
    holding,    \* WorldState.holding: object key or Null
    placed,     \* the object keys placed in the world when the run began
    interpretation, \* the DNF formula handed to the planner
    frontier,   \* aStarSearch: the open entries, in the order they were added
    visited,    \* aStarSearch: the states already expanded
    expanded,   \* number of calls of outgoingEdges so far
    path,       \* SearchResult.path, or Null
    plan,       \* the plan under construction
    pc,         \* position of the running function
    call,       \* arguments of the function under evaluation
    ret         \* its return value

worldVars == <<stacks, arm, holding, placed>>
searchVars == <<interpretation, frontier, visited, expanded, path, plan>>
vars == <<worldVars, searchVars, pc, call, ret>>

\* JavaScript null / undefined
Null == "<null>"

\* ---------------------------------------------------------------- bounds
\* number of columns of the worlds explored by the transition system
NumCols == 2
\* largest number of objects placed in such a world
MaxObjs == 3

\* ------------------------------------------------------- the object table
\* state.objects: key -> form, size, color (immutable during a run)
objects ==
    [ a |-> [form |-> "brick",   size |-> "large", color |-> "green"],
      b |-> [form |-> "brick",   size |-> "small", color |-> "white"],
      c |-> [form |-> "plank",   size |-> "large", color |-> "red"],
      d |-> [form |-> "plank",   size |-> "small", color |-> "green"],
      e |-> [form |-> "ball",    size |-> "large", color |-> "white"],
      f |-> [form |-> "ball",    size |-> "small", color |-> "black"],
      g |-> [form |-> "table",   size |-> "large", color |-> "blue"],
      h |-> [form |-> "table",   size |-> "small", color |-> "red"],
      i |-> [form |-> "pyramid", size |-> "large", color |-> "yellow"],
      j |-> [form |-> "pyramid", size |-> "small", color |-> "red"],
      k |-> [form |-> "box",     size |-> "large", color |-> "yellow"],
      l |-> [form |-> "box",     size |-> "large", color |-> "red"],
      m |-> [form |-> "box",     size |-> "small", color |-> "blue"] ]

Keys == DOMAIN objects

\* the keys the explored worlds are built from: one of each form, both balls
\* and both box sizes
WorldKeys == {"a", "d", "e", "f", "g", "k", "m"}

Relations == {"inside", "ontop", "above", "under", "beside", "leftof", "rightof"}

\* ------------------------------------------------------------ Interpreter

getObjectSize(objectKey) ==
    IF objectKey \in Keys THEN objects[objectKey].size ELSE Null

getObjectForm(objectKey) ==
    IF objectKey = "floor" THEN "floor"
    ELSE IF objectKey \in Keys THEN objects[objectKey].form
    ELSE Null

\* a variant whose ball rule only rejects tables
isMoveValidBallOnTable(objectToMove, relation, targetObject) ==
    IF relation = "inside"
       /\ getObjectSize(objectToMove) = "large"
       /\ getObjectSize(targetObject) = "small"
       /\ getObjectForm(targetObject) = "box"
    THEN FALSE
    ELSE IF relation \in {"inside", "ontop"}
            /\ getObjectForm(objectToMove) \in {"box", "plank", "pyramid"}
            /\ getObjectForm(targetObject) = "box"
    THEN ~ (getObjectSize(objectToMove) = "large" \/ getObjectSize(targetObject) = "small")
    ELSE IF relation \in {"inside", "ontop"}
            /\ getObjectForm(objectToMove) = "box"
            /\ getObjectForm(targetObject) \in {"brick", "pyramid"}
    THEN FALSE
    ELSE IF relation = "ontop"
            /\ getObjectForm(objectToMove) = "ball"
            /\ getObjectForm(targetObject) = "table"
    THEN FALSE
    ELSE IF targetObject = objectToMove
    THEN FALSE
    ELSE TRUE

\* a variant whose box branch rejects only when both size conditions hold
isMoveValidBothSizes(objectToMove, relation, targetObject) ==
    IF relation = "inside"
       /\ getObjectSize(objectToMove) = "large"
       /\ getObjectSize(targetObject) = "small"
       /\ getObjectForm(targetObject) = "box"
    THEN FALSE
    ELSE IF relation \in {"inside", "ontop"}
            /\ getObjectForm(objectToMove) \in {"box", "plank", "pyramid"}
            /\ getObjectForm(targetObject) = "box"
    THEN ~ (getObjectSize(objectToMove) = "large" /\ getObjectSize(targetObject) = "small")
    ELSE IF relation \in {"inside", "ontop"}
            /\ getObjectForm(objectToMove) = "box"
            /\ getObjectForm(targetObject) \in {"brick", "pyramid"}
    THEN FALSE
    ELSE IF relation = "ontop"
            /\ getObjectForm(objectToMove) = "ball"
            /\ getObjectForm(targetObject) # "floor"
    THEN FALSE
    ELSE IF targetObject = objectToMove
    THEN FALSE
    ELSE TRUE

\* The if / else-if chain of isMoveValid.  The second branch, once entered,
\* decides alone: its inner test returns false, anything else falls through
\* to the final "return true" without visiting the later branches.
isMoveValid(objectToMove, relation, targetObject) ==
    IF relation = "inside"
       /\ getObjectSize(objectToMove) = "large"
       /\ getObjectSize(targetObject) = "small"
       /\ getObjectForm(targetObject) = "box"
    THEN FALSE
    ELSE IF relation \in {"inside", "ontop"}
            /\ getObjectForm(objectToMove) \in {"box", "plank", "pyramid"}
            /\ getObjectForm(targetObject) = "box"
    THEN ~ (getObjectSize(objectToMove) = "large" \/ getObjectSize(targetObject) = "small")
    ELSE IF relation \in {"inside", "ontop"}
            /\ getObjectForm(objectToMove) = "box"
            /\ getObjectForm(targetObject) \in {"brick", "pyramid"}
    THEN FALSE
    ELSE IF relation = "ontop"
            /\ getObjectForm(objectToMove) = "ball"
            /\ getObjectForm(targetObject) # "floor"
    THEN FALSE
    ELSE IF targetObject = objectToMove
    THEN FALSE
    ELSE TRUE

\* a JavaScript value that is a number, null, undefined or NaN
Number(n) == [kind |-> "number", n |-> n]
NullValue == [kind |-> "null", n |-> 0]
Undefined == [kind |-> "undefined", n |-> 0]
NaN == [kind |-> "NaN", n |-> 0]

\* getStackNumber: the first column (0-based) that holds the object, else null
getStackNumber(stacks_, searched_object) ==
    LET hits == { n \in DOMAIN stacks_ :
                    \E q \in DOMAIN stacks_[n] : stacks_[n][q] = searched_object }
    IN  IF hits = {} THEN NullValue
        ELSE Number((CHOOSE n \in hits : \A n2 \in hits : n <= n2) - 1)

doesObjectExist(holding_, stacks_, searched_object) ==
    \/ holding_ = searched_object
    \/ \E n \in DOMAIN stacks_ :
          \E q \in DOMAIN stacks_[n] : stacks_[n][q] = searched_object

RECURSIVE isInsideFrom(_, _, _, _, _)
\* the loop of isInside from position key on
isInsideFrom(stack, key, foundObjectBelow, objectInside, objectBelow) ==
    IF key > Len(stack) THEN FALSE
    ELSE IF foundObjectBelow THEN stack[key] = objectInside
    ELSE isInsideFrom(stack, key + 1, stack[key] = objectBelow, objectInside, objectBelow)

\* an inside test that does not look at the form of the container
isInsideAnyForm(stack, objectInside, objectBelow) ==
    isInsideFrom(stack, 1, FALSE, objectInside, objectBelow)

isInside(stack, objectInside, objectBelow) ==
    IF getObjectForm(objectBelow) # "table"
    THEN isInsideFrom(stack, 1, FALSE, objectInside, objectBelow)
    ELSE FALSE

\* The column scan shared by isRightOf, isLeftOf and isBeside: in each column
\* the first element equal to one of the two objects decides (the first object
\* is tested first) and ends the scan of that column.  "first", "second" or
\* "none".
RECURSIVE FirstHit(_, _, _, _)
FirstHit(stack, key, firstObject, secondObject) ==
    IF key > Len(stack) THEN "none"
    ELSE IF stack[key] = firstObject THEN "first"
    ELSE IF stack[key] = secondObject THEN "second"
    ELSE FirstHit(stack, key + 1, firstObject, secondObject)

\* the stack number left in a ...StackNr variable after the scan: the last
\* column whose hit is `which`, or the initial -10
StackNr(stacks_, which, firstObject, secondObject) ==
    LET hits == { n \in DOMAIN stacks_ :
                    FirstHit(stacks_[n], 1, firstObject, secondObject) = which }
    IN  IF hits = {} THEN 0 - 10
        ELSE (CHOOSE n \in hits : \A n2 \in hits : n >= n2) - 1

Abs(x) == IF x < 0 THEN 0 - x ELSE x

isRightOf(stacks_, rightObject, secondObject) ==
    LET rightObjectStackNr == StackNr(stacks_, "first", rightObject, secondObject)
        secondObjectStackNr == StackNr(stacks_, "second", rightObject, secondObject)
    IN  /\ secondObjectStackNr # 0 - 10
        /\ rightObjectStackNr # 0 - 10
        /\ rightObjectStackNr - secondObjectStackNr > 0

\* a left-of test that does not ask whether both objects were found
isLeftOfUnfound(stacks_, leftObject, secondObject) ==
    LET leftObjectStackNr == StackNr(stacks_, "first", leftObject, secondObject)
        secondObjectStackNr == StackNr(stacks_, "second", leftObject, secondObject)
    IN  secondObjectStackNr - leftObjectStackNr > 0

isLeftOf(stacks_, leftObject, secondObject) ==
    LET leftObjectStackNr == StackNr(stacks_, "first", leftObject, secondObject)
        secondObjectStackNr == StackNr(stacks_, "second", leftObject, secondObject)
    IN  /\ secondObjectStackNr # 0 - 10
        /\ leftObjectStackNr # 0 - 10
        /\ secondObjectStackNr - leftObjectStackNr > 0

\* a beside test that accepts a difference of 0 as well
isBesideOrSame(stacks_, firstObject, secondObject) ==
    LET firstObjectStackNr == StackNr(stacks_, "first", firstObject, secondObject)
        secondObjectStackNr == StackNr(stacks_, "second", firstObject, secondObject)
    IN  Abs(secondObjectStackNr - firstObjectStackNr) <= 1

isBeside(stacks_, firstObject, secondObject) ==
    LET firstObjectStackNr == StackNr(stacks_, "first", firstObject, secondObject)
        secondObjectStackNr == StackNr(stacks_, "second", firstObject, secondObject)
    IN  Abs(secondObjectStackNr - firstObjectStackNr) = 1

RECURSIVE isAboveFrom(_, _, _, _, _)
isAboveFrom(stack, key, foundObjectUnder, objectAbove, objectUnder) ==
    IF key > Len(stack) THEN FALSE
    ELSE IF foundObjectUnder /\ stack[key] = objectAbove THEN TRUE
    ELSE IF objectUnder = "floor" /\ stack[key] = objectAbove THEN TRUE
    ELSE isAboveFrom(stack, key + 1, foundObjectUnder \/ stack[key] = objectUnder,
                     objectAbove, objectUnder)

isAbove(stack, objectAbove, objectUnder) ==
    IF getObjectForm(objectAbove) # "floor"
    THEN isAboveFrom(stack, 1, FALSE, objectAbove, objectUnder)
    ELSE FALSE

RECURSIVE isUnderFrom(_, _, _, _, _)
isUnderFrom(stack, key, foundObjectUnder, objectUnder, objectAbove) ==
    IF key > Len(stack) THEN FALSE
    ELSE IF foundObjectUnder /\ stack[key] = objectAbove THEN TRUE
    ELSE isUnderFrom(stack, key + 1, foundObjectUnder \/ stack[key] = objectUnder,
                     objectUnder, objectAbove)

\* an under test with the two objects taken the other way round
isUnderSwapped(stack, objectUnder, objectAbove) ==
    IF getObjectForm(objectAbove) # "floor" /\ getObjectForm(objectUnder) # "floor"
    THEN isUnderFrom(stack, 1, FALSE, objectAbove, objectUnder)
    ELSE FALSE

isUnder(stack, objectUnder, objectAbove) ==
    IF getObjectForm(objectAbove) # "floor" /\ getObjectForm(objectUnder) # "floor"
    THEN isUnderFrom(stack, 1, FALSE, objectUnder, objectAbove)
    ELSE FALSE

RECURSIVE isOnTopFrom(_, _, _, _, _)
isOnTopFrom(stack, key, foundObjectBelow, objectOnTop, objectBelow) ==
    IF key > Len(stack) THEN FALSE
    ELSE IF foundObjectBelow THEN stack[key] = objectOnTop
    ELSE IF objectBelow = "floor" /\ stack[key] = objectOnTop /\ key = 1 THEN TRUE
    ELSE isOnTopFrom(stack, key + 1, stack[key] = objectBelow, objectOnTop, objectBelow)

isOnTop(stack, objectOnTop, objectBelow) ==
    IF getObjectForm(objectOnTop) # "floor"
    THEN isOnTopFrom(stack, 1, FALSE, objectOnTop, objectBelow)
    ELSE FALSE

\* ------------------------------------------------- Interpreter: resolution

\* the order in which "for (key in state.objects)" visits the keys
KeyOrder == <<"a", "b", "c", "d", "e", "f", "g", "h", "i", "j", "k", "l", "m">>

\* Parser.Object: a plain description has form / size / color (null = not
\* given) and no object / location; a description with a nested location has
\* object and location and none of the three filters.  An optional field is
\* << >> when absent and <<value>> when present.
PlainObject(form, size, color) ==
    [form |-> form, size |-> size, color |-> color, object |-> << >>, location |-> << >>]

NestedObject(object, location) ==
    [form |-> Null, size |-> Null, color |-> Null,
     object |-> <<object>>, location |-> <<location>>]

Entity(object) == [object |-> object]

Location(relation, entity) == [relation |-> relation, entity |-> entity]

ObjectRelations(targetObject, relation, locationObject) ==
    [targetObject |-> targetObject, relation |-> relation, locationObject |-> locationObject]

\* an expansion that does not ask whether the object is in the world
getObjectKeysAnywhere(object, state) ==
    IF object.form = "floor" THEN <<"floor">>
    ELSE SelectSeq(KeyOrder,
            LAMBDA key :
                /\ (object.form = objects[key].form \/ object.form = "anyform")
                /\ (object.color = objects[key].color \/ object.color = Null)
                /\ (object.size = objects[key].size \/ object.size = Null))

\* getObjectKeys: the keys of the objects in the world that match the filters
getObjectKeys(object, state) ==
    IF object.form = "floor" THEN <<"floor">>
    ELSE SelectSeq(KeyOrder,
            LAMBDA key :
                /\ (object.form = objects[key].form \/ object.form = "anyform")
                /\ (object.color = objects[key].color \/ object.color = Null)
                /\ (object.size = objects[key].size \/ object.size = Null)
                /\ doesObjectExist(state.holding, state.stacks, key))

\* the nested "for targetObject / for locationObject" loops
RelationPairs(targetObjects, relation, locationObjects) ==
    [ n \in 1..(Len(targetObjects) * Len(locationObjects)) |->
        ObjectRelations(targetObjects[((n - 1) \div Len(locationObjects)) + 1],
                        relation,
                        locationObjects[((n - 1) % Len(locationObjects)) + 1]) ]

\* getObjectRelationsThatExistsInWorld: keep the relations that hold in the state
relationExistsInWorld(objectRelation, state) ==
    IF objectRelation.relation = "beside"
    THEN isBeside(state.stacks, objectRelation.targetObject, objectRelation.locationObject)
    ELSE IF objectRelation.relation = "leftof"
    THEN isLeftOf(state.stacks, objectRelation.targetObject, objectRelation.locationObject)
    ELSE IF objectRelation.relation = "rightof"
    THEN isRightOf(state.stacks, objectRelation.targetObject, objectRelation.locationObject)
    ELSE IF objectRelation.relation = ""
    THEN doesObjectExist(state.holding, state.stacks, objectRelation.targetObject)
    ELSE \E n \in DOMAIN state.stacks :
            IF objectRelation.relation = "inside"
            THEN isInside(state.stacks[n], objectRelation.targetObject, objectRelation.locationObject)
            ELSE IF objectRelation.relation = "ontop"
            THEN isOnTop(state.stacks[n], objectRelation.targetObject, objectRelation.locationObject)
            ELSE IF objectRelation.relation = "above"
            THEN isAbove(state.stacks[n], objectRelation.targetObject, objectRelation.locationObject)
            ELSE IF objectRelation.relation = "under"
            THEN isUnder(state.stacks[n], objectRelation.targetObject, objectRelation.locationObject)
            ELSE FALSE

getObjectRelationsThatExistsInWorld(objectRelations, state) ==
    SelectSeq(objectRelations, LAMBDA objectRelation : relationExistsInWorld(objectRelation, state))

getRequestedObjectRelations(object, state) ==
    IF object.location # << >>
    THEN RelationPairs(getObjectKeys(object.object[1], state),
                       object.location[1].relation,
                       getObjectKeys(object.location[1].entity.object, state))
    ELSE LET targetObjects == getObjectKeys(object, state)
         IN  [ n \in 1..Len(targetObjects) |-> ObjectRelations(targetObjects[n], "", Null) ]

RECURSIVE Flatten(_)
\* the concatenation of a sequence of sequences
Flatten(seqs) ==
    IF seqs = << >> THEN << >> ELSE Head(seqs) \o Flatten(Tail(seqs))

\* a literal pushed without looking at what the gripper holds
PlacementLiteralUnchecked(objectToMove, relation, locationKey, state) ==
    IF objectToMove = "itself"
    THEN << [polarity |-> TRUE, relation |-> relation,
             args |-> <<state.holding, locationKey>>] >>
    ELSE << [polarity |-> TRUE, relation |-> relation,
             args |-> <<objectToMove, locationKey>>] >>

\* the literal pushed for one location key that passed isMoveValid
PlacementLiteral(objectToMove, relation, locationKey, state) ==
    IF objectToMove = "itself"
    THEN IF state.holding # Null
         THEN << [polarity |-> TRUE, relation |-> relation,
                  args |-> <<state.holding, locationKey>>] >>
         ELSE << >>
    ELSE << [polarity |-> TRUE, relation |-> relation,
             args |-> <<objectToMove, locationKey>>] >>

\* the location keys a placement command may use, in the order they are visited
LocationKeys(location, state) ==
    IF location.entity.object.location = << >>
    THEN getObjectKeys(location.entity.object, state)
    ELSE LET existing ==
                getObjectRelationsThatExistsInWorld(
                    RelationPairs(getObjectKeys(location.entity.object.object[1], state),
                                  location.entity.object.location[1].relation,
                                  getObjectKeys(location.entity.object.location[1].entity.object, state)),
                    state)
         IN  [ n \in 1..Len(existing) |-> existing[n].targetObject ]

\* possession recognised for "take" only
getPossibleMovesTakeOnly(command, objectToMove, location, state) ==
    IF objectToMove = "floor" THEN << >>
    ELSE IF command \in {"take"}
    THEN << [polarity |-> TRUE, relation |-> "holding", args |-> <<objectToMove>>] >>
    ELSE IF command \in {"move", "put", "drop"}
    THEN LET locationKeys == LocationKeys(location[1], state)
         IN  Flatten([ n \in 1..Len(locationKeys) |->
                        IF isMoveValid(objectToMove, location[1].relation, locationKeys[n])
                        THEN PlacementLiteral(objectToMove, location[1].relation, locationKeys[n], state)
                        ELSE << >> ])
    ELSE << >>

getPossibleMoves(command, objectToMove, location, state) ==
    IF objectToMove = "floor" THEN << >>
    ELSE IF command \in {"take", "grasp", "pick up"}
    THEN << [polarity |-> TRUE, relation |-> "holding", args |-> <<objectToMove>>] >>
    ELSE IF command \in {"move", "put", "drop"}
    THEN LET locationKeys == LocationKeys(location[1], state)
         IN  Flatten([ n \in 1..Len(locationKeys) |->
                        IF isMoveValid(objectToMove, location[1].relation, locationKeys[n])
                        THEN PlacementLiteral(objectToMove, location[1].relation, locationKeys[n], state)
                        ELSE << >> ])
    ELSE << >>

\* all literals pushed as one conjunction
interpretCommandOneConjunction(cmd, state) ==
    LET objectRelationsThatExistsInWorld ==
            IF cmd.entity # << >>
            THEN getObjectRelationsThatExistsInWorld(
                     getRequestedObjectRelations(cmd.entity[1].object, state), state)
            ELSE << ObjectRelations("itself", Null, Null) >>
        results ==
            Flatten([ n \in 1..Len(objectRelationsThatExistsInWorld) |->
                        getPossibleMoves(cmd.command,
                                         objectRelationsThatExistsInWorld[n].targetObject,
                                         cmd.location, state) ])
        my_interpretation == IF Len(results) = 0 THEN << >> ELSE << results >>
    IN  IF cmd.entity # << >> /\ Len(objectRelationsThatExistsInWorld) = 0
        THEN [thrown |-> "No possible objects found", formula |-> << >>]
        ELSE IF Len(my_interpretation) = 0
        THEN [thrown |-> "No possible objects to move", formula |-> << >>]
        ELSE [thrown |-> Null, formula |-> my_interpretation]

\* no test of the number of objects found
interpretCommandNoObjectTest(cmd, state) ==
    LET objectRelationsThatExistsInWorld ==
            IF cmd.entity # << >>
            THEN getObjectRelationsThatExistsInWorld(
                     getRequestedObjectRelations(cmd.entity[1].object, state), state)
            ELSE << ObjectRelations("itself", Null, Null) >>
        results ==
            Flatten([ n \in 1..Len(objectRelationsThatExistsInWorld) |->
                        getPossibleMoves(cmd.command,
                                         objectRelationsThatExistsInWorld[n].targetObject,
                                         cmd.location, state) ])
        my_interpretation == [ n \in 1..Len(results) |-> << results[n] >> ]
    IN  IF Len(my_interpretation) = 0
        THEN [thrown |-> "No possible objects to move", formula |-> << >>]
        ELSE [thrown |-> Null, formula |-> my_interpretation]

\* no test of the length of the formula
interpretCommandNoLengthTest(cmd, state) ==
    LET objectRelationsThatExistsInWorld ==
            IF cmd.entity # << >>
            THEN getObjectRelationsThatExistsInWorld(
                     getRequestedObjectRelations(cmd.entity[1].object, state), state)
            ELSE << ObjectRelations("itself", Null, Null) >>
        results ==
            Flatten([ n \in 1..Len(objectRelationsThatExistsInWorld) |->
                        getPossibleMoves(cmd.command,
                                         objectRelationsThatExistsInWorld[n].targetObject,
                                         cmd.location, state) ])
        my_interpretation == [ n \in 1..Len(results) |-> << results[n] >> ]
    IN  IF cmd.entity # << >> /\ Len(objectRelationsThatExistsInWorld) = 0
        THEN [thrown |-> "No possible objects found", formula |-> << >>]
        ELSE [thrown |-> Null, formula |-> my_interpretation]

\* interpretCommand: the formula, or the string thrown
interpretCommand(cmd, state) ==
    LET objectRelationsThatExistsInWorld ==
            IF cmd.entity # << >>
            THEN getObjectRelationsThatExistsInWorld(
                     getRequestedObjectRelations(cmd.entity[1].object, state), state)
            ELSE << ObjectRelations("itself", Null, Null) >>
        results ==
            Flatten([ n \in 1..Len(objectRelationsThatExistsInWorld) |->
                        getPossibleMoves(cmd.command,
                                         objectRelationsThatExistsInWorld[n].targetObject,
                                         cmd.location, state) ])
        my_interpretation == [ n \in 1..Len(results) |-> << results[n] >> ]
    IN  IF cmd.entity # << >> /\ Len(objectRelationsThatExistsInWorld) = 0
        THEN [thrown |-> "No possible objects found", formula |-> << >>]
        ELSE IF Len(my_interpretation) = 0
        THEN [thrown |-> "No possible objects to move", formula |-> << >>]
        ELSE [thrown |-> Null, formula |-> my_interpretation]

\* ---------------------------------------------------------------- Planner

SNode(s, a, h) == [stacks |-> s, arm |-> a, holding |-> h]

\* node.state.stacks[node.state.arm]
Column(node) == node.stacks[node.arm + 1]

\* top of the column under the arm, undefined when the column is empty
targetObjectOf(node) ==
    IF Len(Column(node)) = 0 THEN Null ELSE Column(node)[Len(Column(node))]

\* an arm that moves left from column 0 as well
EdgeLeftBelowZero(node) ==
    IF node.arm >= 0
    THEN << [command |-> "l", to |-> SNode(node.stacks, node.arm - 1, node.holding)] >>
    ELSE << >>

\* an arm that lets go of what it holds when it moves left
EdgeLeftLosesHolding(node) ==
    IF node.arm > 0
    THEN << [command |-> "l", to |-> SNode(node.stacks, node.arm - 1, Null)] >>
    ELSE << >>

EdgeLeft(node) ==
    IF node.arm > 0
    THEN << [command |-> "l", to |-> SNode(node.stacks, node.arm - 1, node.holding)] >>
    ELSE << >>

\* an arm that moves right from the last column as well
EdgeRightPastEnd(node) ==
    IF node.arm < Len(node.stacks)
    THEN << [command |-> "r", to |-> SNode(node.stacks, node.arm + 1, node.holding)] >>
    ELSE << >>

EdgeRight(node) ==
    IF node.arm < Len(node.stacks) - 1
    THEN << [command |-> "r", to |-> SNode(node.stacks, node.arm + 1, node.holding)] >>
    ELSE << >>

\* a drop that forgets to empty the gripper
EdgeDropKeepsHolding(node) ==
    IF node.holding # Null
       /\ (IF targetObjectOf(node) # Null
           THEN isMoveValid(node.holding, "ontop", targetObjectOf(node))
                \/ isMoveValid(node.holding, "inside", targetObjectOf(node))
           ELSE TRUE)
    THEN << [command |-> "d",
             to |-> SNode([node.stacks EXCEPT ![node.arm + 1] = Append(@, node.holding)],
                          node.arm, node.holding)] >>
    ELSE << >>

\* a drop that does not ask isMoveValid
EdgeDropAnywhere(node) ==
    IF node.holding # Null
    THEN << [command |-> "d",
             to |-> SNode([node.stacks EXCEPT ![node.arm + 1] = Append(@, node.holding)],
                          node.arm, Null)] >>
    ELSE << >>

EdgeDrop(node) ==
    IF node.holding # Null
       /\ (IF targetObjectOf(node) # Null
           THEN isMoveValid(node.holding, "ontop", targetObjectOf(node))
                \/ isMoveValid(node.holding, "inside", targetObjectOf(node))
           ELSE TRUE)
    THEN << [command |-> "d",
             to |-> SNode([node.stacks EXCEPT ![node.arm + 1] = Append(@, node.holding)],
                          node.arm, Null)] >>
    ELSE << >>

\* a pick that takes the bottom object of the column
EdgePickBottom(node) ==
    IF node.holding = Null /\ Len(Column(node)) # 0
    THEN << [command |-> "p",
             to |-> SNode([node.stacks EXCEPT ![node.arm + 1] = Tail(@)],
                          node.arm, Column(node)[1])] >>
    ELSE << >>

\* a pick that leaves the picked object in its column
EdgePickKeepsObject(node) ==
    IF node.holding = Null /\ Len(Column(node)) # 0
    THEN << [command |-> "p",
             to |-> SNode(node.stacks, node.arm, targetObjectOf(node))] >>
    ELSE << >>

EdgePick(node) ==
    IF node.holding = Null /\ Len(Column(node)) # 0
    THEN << [command |-> "p",
             to |-> SNode([node.stacks EXCEPT ![node.arm + 1] = SubSeq(@, 1, Len(@) - 1)],
                          node.arm, targetObjectOf(node))] >>
    ELSE << >>

\* SGraph.outgoingEdges: the edges in the order they are pushed (l, r, d, p)
outgoingEdges(node) ==
    EdgeLeft(node) \o EdgeRight(node) \o EdgeDrop(node) \o EdgePick(node)

\* isInterpretationInCurrentWorldstate: does the relation named by the literal
\* hold in the state?  The literal's polarity is not read.
isInterpretationInCurrentWorldstate(lit, state) ==
    IF lit.relation = "beside" THEN isBeside(state.stacks, lit.args[1], lit.args[2])
    ELSE IF lit.relation = "leftof" THEN isLeftOf(state.stacks, lit.args[1], lit.args[2])
    ELSE IF lit.relation = "rightof" THEN isRightOf(state.stacks, lit.args[1], lit.args[2])
    ELSE IF lit.relation = "holding" THEN state.holding = lit.args[1]
    ELSE \E n \in DOMAIN state.stacks :
            IF lit.relation = "inside" THEN isInside(state.stacks[n], lit.args[1], lit.args[2])
            ELSE IF lit.relation = "ontop" THEN isOnTop(state.stacks[n], lit.args[1], lit.args[2])
            ELSE IF lit.relation = "above" THEN isAbove(state.stacks[n], lit.args[1], lit.args[2])
            ELSE IF lit.relation = "under" THEN isUnder(state.stacks[n], lit.args[1], lit.args[2])
            ELSE FALSE

\* planInterpretation.isGoal: the first literal of each conjunction is tested
isGoal(formula, node) ==
    \E n \in DOMAIN formula :
        isInterpretationInCurrentWorldstate(formula[n][1], node)

\* ------------------------------------------------------- world enumeration

RECURSIVE Arrangements(_, _)
\* every way to put the keys of K, each once, into n columns
Arrangements(K, n) ==
    IF K = {} THEN { [c \in 1..n |-> << >>] }
    ELSE LET x == CHOOSE y \in K : TRUE
         IN  { [w EXCEPT ![c] = SubSeq(@, 1, p) \o <<x>> \o SubSeq(@, p + 1, Len(@))] :
                 <<w, c, p>> \in { <<w, c, p>> \in Arrangements(K \ {x}, n) \X (1..n) \X (0..Cardinality(K)) :
                                     p <= Len(w[c]) } }

\* number of places (gripper or stack slots) that hold key x in a node
Occurrences(node, x) ==
    (IF node.holding = x THEN 1 ELSE 0)
    + Cardinality({ cp \in UNION { {c} \X DOMAIN node.stacks[c] : c \in DOMAIN node.stacks } :
                      node.stacks[cp[1]][cp[2]] = x })

\* the keys placed in a node
Placed(node) == { x \in Keys : Occurrences(node, x) > 0 }

current == SNode(stacks, arm, holding)

\* variables a specification does not use keep these values
IdleWorld ==
    /\ stacks = << >>
    /\ arm = 0
    /\ holding = Null
    /\ placed = {}

IdleSearch ==
    /\ interpretation = << >>
    /\ frontier = << >>
    /\ visited = {}
    /\ expanded = 0
    /\ path = << >>
    /\ plan = << >>

\* ------------------------------------------------- the transition system

InitWorld ==
    /\ placed \in { S \in SUBSET WorldKeys : Cardinality(S) <= MaxObjs }
    /\ holding \in placed \cup {Null}
    /\ stacks \in Arrangements(placed \ {holding}, NumCols)
    /\ arm \in 0..(NumCols - 1)
    /\ IdleSearch
    /\ pc = "world"
    /\ call = Null
    /\ ret = Null

\* follow the edge of outgoingEdges that carries the given command; ret keeps
\* the command of the edge followed last
Follow(command) ==
    /\ pc = "world"
    /\ LET edges == outgoingEdges(current)
       IN  \E n \in DOMAIN edges :
              /\ edges[n].command = command
              /\ stacks' = edges[n].to.stacks
              /\ arm' = edges[n].to.arm
              /\ holding' = edges[n].to.holding
              /\ ret' = edges[n].command
    /\ UNCHANGED <<placed, searchVars, pc, call>>

ArmLeft == Follow("l")
ArmRight == Follow("r")
Drop == Follow("d")
Pick == Follow("p")

NextWorld == ArmLeft \/ ArmRight \/ Drop \/ Pick

SpecWorld == InitWorld /\ [][NextWorld]_vars

\* C1: every object key placed in the initial state is in exactly one place
\* (the gripper or one stack slot) in every reachable state, and no other key
\* appears anywhere.
OnePlacePerObject ==
    pc = "world" =>
        \A x \in Keys :
            Occurrences(current, x) = (IF x \in placed THEN 1 ELSE 0)

\* three objects, one held over a column that holds the two others
OnePlaceWitness ==
    /\ pc = "world"
    /\ Cardinality(placed) = 3
    /\ holding # Null
    /\ Len(stacks[arm + 1]) = 2

\* --------------------------------------------- isMoveValid as a function

InitValid ==
    /\ IdleWorld
    /\ IdleSearch
    /\ pc = "valid_call"
    /\ call \in [objectToMove : Keys \cup {"floor", "itself"},
                 relation : Relations,
                 targetObject : Keys \cup {"floor"}]
    /\ ret = Null

CallIsMoveValid ==
    /\ pc = "valid_call"
    /\ ret' = isMoveValid(call.objectToMove, call.relation, call.targetObject)
    /\ pc' = "valid_done"
    /\ UNCHANGED <<worldVars, searchVars, call>>

NextValid == CallIsMoveValid

SpecValid == InitValid /\ [][NextValid]_vars

\* The rule table of the physical validity rules, rule by rule.
Rule1(moving, relation, target) ==
    /\ relation = "inside"
    /\ getObjectSize(moving) = "large"
    /\ getObjectSize(target) = "small"
    /\ getObjectForm(target) = "box"

Rule2(moving, relation, target) ==
    /\ relation \in {"inside", "ontop"}
    /\ getObjectForm(moving) \in {"box", "plank", "pyramid"}
    /\ getObjectForm(target) = "box"
    /\ (getObjectSize(moving) = "large" \/ getObjectSize(target) = "small")

Rule3(moving, relation, target) ==
    /\ relation \in {"inside", "ontop"}
    /\ getObjectForm(moving) = "box"
    /\ getObjectForm(target) \in {"brick", "pyramid"}

Rule4(moving, relation, target) ==
    /\ relation = "ontop"
    /\ getObjectForm(moving) = "ball"
    /\ getObjectForm(target) # "floor"

Rule5(moving, relation, target) == target = moving

\* first match decides; rules 1 to 5 say invalid, rule 6 says valid
RuleTable(moving, relation, target) ==
    CASE Rule1(moving, relation, target) -> FALSE
      [] Rule2(moving, relation, target) -> FALSE
      [] Rule3(moving, relation, target) -> FALSE
      [] Rule4(moving, relation, target) -> FALSE
      [] Rule5(moving, relation, target) -> FALSE
      [] OTHER -> TRUE

\* C8: for every pair of objects of size small or large (the target possibly
\* the floor) and every relation, isMoveValid returns what the six-rule table
\* returns.
MoveValidIsRuleTable ==
    (pc = "valid_done" /\ call.objectToMove \in Keys) =>
        ret = RuleTable(call.objectToMove, call.relation, call.targetObject)

\* a small plank into a large box: the box branch is entered and does not
\* reject, and the call returns true
MoveValidWitness ==
    /\ pc = "valid_done"
    /\ call = [objectToMove |-> "d", relation |-> "inside", targetObject |-> "k"]
    /\ ret = TRUE

\* C9: isMoveValid(x, relation, x) is false for every object x and relation.
SelfMoveInvalid ==
    (pc = "valid_done" /\ call.objectToMove = call.targetObject) => ret = FALSE

\* a box related to itself: decided inside the box branch, before the
\* self-relation check
SelfMoveWitness ==
    /\ pc = "valid_done"
    /\ call.objectToMove = call.targetObject
    /\ getObjectForm(call.objectToMove) = "box"
    /\ call.relation = "ontop"
    /\ ret = FALSE

\* ------------------------------------------------ the goal test as a function

Literal(polarity, relation, args) ==
    [polarity |-> polarity, relation |-> relation, args |-> args]

\* the positive literals over the keys of K and the floor
Literals(K) ==
    { Literal(TRUE, "holding", <<x>>) : x \in K }
    \cup { Literal(TRUE, r, <<x, y>>) :
             r \in Relations, x \in K \cup {"floor"}, y \in K \cup {"floor"} }

HoldingLiterals(K) == { Literal(TRUE, "holding", <<x>>) : x \in K }

\* formulas of one single-literal conjunction, of one two-literal conjunction
\* and of two single-literal conjunctions (the first literal a holding literal)
GoalFormulas(K) ==
    { << <<l1>> >> : l1 \in Literals(K) }
    \cup { << <<l1, l2>> >> : l1 \in HoldingLiterals(K), l2 \in Literals(K) }
    \cup { << <<l1>>, <<l2>> >> : l1 \in HoldingLiterals(K), l2 \in Literals(K) }

\* the keys the goal test is evaluated over: a brick, a table and a box
GoalKeys == {"a", "g", "k"}

InitGoal ==
    /\ placed \in { S \in SUBSET GoalKeys : Cardinality(S) = 2 }
    /\ holding \in placed \cup {Null}
    /\ stacks \in Arrangements(placed \ {holding}, NumCols)
    /\ arm \in 0..(NumCols - 1)
    /\ interpretation \in GoalFormulas(placed)
    /\ frontier = << >>
    /\ visited = {}
    /\ expanded = 0
    /\ path = << >>
    /\ plan = << >>
    /\ pc = "goal_call"
    /\ call = Null
    /\ ret = Null

CallIsGoal ==
    /\ pc = "goal_call"
    /\ ret' = isGoal(interpretation, current)
    /\ pc' = "goal_done"
    /\ UNCHANGED <<worldVars, searchVars, call>>

NextGoal == CallIsGoal

SpecGoal == InitGoal /\ [][NextGoal]_vars

\* a literal is true when its relation holds, or fails to hold, as its
\* polarity says
LiteralTrue(lit, state) ==
    isInterpretationInCurrentWorldstate(lit, state) = lit.polarity

\* some conjunction has all of its literals true
FormulaSatisfied(formula, state) ==
    \E n \in DOMAIN formula :
        \A q \in DOMAIN formula[n] : LiteralTrue(formula[n][q], state)

\* C4: the goal test returns true iff some conjunction of the formula has all
\* of its literals true in the state.
GoalTestAllLiterals ==
    pc = "goal_done" => (ret = FormulaSatisfied(interpretation, current))

\* --------------------------------------------- interpretCommand as a function

\* the keys of the resolver's worlds: a large and a small ball, a large and a
\* small box
InterpKeys == {"e", "f", "k", "m"}

\* the plain descriptions commands are built from
Descriptions ==
    { PlainObject("anyform", Null, Null),
      PlainObject("ball", Null, Null),
      PlainObject("ball", "large", "white"),
      PlainObject("box", Null, Null),
      PlainObject("box", "small", Null),
      PlainObject("floor", Null, Null) }

\* a description with one nested location
NestedDescriptions ==
    { NestedObject(o, Location(r, Entity(o2))) :
        o \in {PlainObject("anyform", Null, Null), PlainObject("ball", Null, Null)},
        r \in {"inside", "ontop", "leftof", "beside"},
        o2 \in {PlainObject("box", Null, Null), PlainObject("floor", Null, Null)} }

\* the descriptions of the object a placement command moves
MovedDescriptions ==
    { PlainObject("anyform", Null, Null),
      PlainObject("ball", Null, Null),
      PlainObject("box", "small", Null),
      NestedObject(PlainObject("anyform", Null, Null),
                   Location("inside", Entity(PlainObject("box", Null, Null)))) }

Command(command, entity, location) ==
    [command |-> command, entity |-> entity, location |-> location]

\* take / grasp / pick up an object; move / put / drop an object, or the held
\* one when no object is named, to a location
Commands ==
    { Command(c, <<Entity(o)>>, << >>) :
        c \in {"take", "grasp", "pick up"}, o \in Descriptions \cup NestedDescriptions }
    \cup { Command(c, << >>, <<Location(r, Entity(o))>>) :
             c \in {"move", "put", "drop"},
             r \in Relations,
             o \in Descriptions }
    \cup { Command(c, <<Entity(o1)>>, <<Location(r, Entity(o))>>) :
             c \in {"move"},
             o1 \in MovedDescriptions,
             r \in Relations,
             o \in Descriptions }
    \cup { Command(c, e, <<Location(r, Entity(o))>>) :
             c \in {"put"},
             e \in { << >>, <<Entity(PlainObject("anyform", Null, Null))>> },
             r \in {"inside", "ontop", "beside"},
             o \in NestedDescriptions }

InitInterp ==
    /\ placed \in { S \in SUBSET InterpKeys : Cardinality(S) \in 1..MaxObjs }
    /\ holding \in placed \cup {Null}
    /\ stacks \in Arrangements(placed \ {holding}, NumCols)
    /\ arm = 0
    /\ IdleSearch
    /\ pc = "interpret_call"
    /\ call \in Commands
    /\ ret = Null

CallInterpretCommand ==
    /\ pc = "interpret_call"
    /\ ret' = interpretCommand(call, current)
    /\ pc' = "interpret_done"
    /\ UNCHANGED <<worldVars, searchVars, call>>

NextInterp == CallInterpretCommand

SpecInterp == InitInterp /\ [][NextInterp]_vars

\* C10: for every placement command, every literal rel(x, y) of the returned
\* formula has isMoveValid(x, rel, y), x being the key that appears in the
\* literal (the held object for a command that names no object).
PlacementLiteralsValid ==
    (pc = "interpret_done" /\ ret.thrown = Null /\ call.command \in {"move", "put", "drop"}) =>
        \A n \in DOMAIN ret.formula :
            \A q \in DOMAIN ret.formula[n] :
                isMoveValid(ret.formula[n][q].args[1],
                            ret.formula[n][q].relation,
                            ret.formula[n][q].args[2])

\* ----------------------------------------------------- the driver loops

\* largest number of interpretations / parses handed to a driver
MaxInputs == 3

\* What the callee (planInterpretation, interpretCommand) does for one input:
\* it throws, it returns null, or it returns a value (a plan, a formula).
Outcome(thrown, isNull, value) == [thrown |-> thrown, isNull |-> isNull, value |-> value]

PlanOutcomes ==
    { Outcome(Null, FALSE, v) : v \in { << >>, <<"p">>, <<"r", "p">> } }
    \cup { Outcome(Null, TRUE, << >>) }
    \cup { Outcome(t, FALSE, << >>) : t \in {"search error", "formula error"} }

InterpretOutcomes ==
    { Outcome(Null, FALSE, v) : v \in { <<"holding(a)">>, <<"ontop(a,floor)">> } }
    \cup { Outcome(t, FALSE, << >>) :
             t \in {"No possible objects found", "No possible objects to move"} }

RECURSIVE SeqsUpTo(_, _)
\* the sequences over S of length at most n
SeqsUpTo(S, n) ==
    IF n = 0 THEN { << >> }
    ELSE SeqsUpTo(S, n - 1)
         \cup { Append(q, x) : q \in { r \in SeqsUpTo(S, n - 1) : Len(r) = n - 1 }, x \in S }

InitDriver ==
    /\ IdleWorld
    /\ IdleSearch
    /\ \/ /\ pc = "plan_loop"
          /\ call \in SeqsUpTo(PlanOutcomes, MaxInputs)
       \/ /\ pc = "interpret_loop"
          /\ call \in SeqsUpTo(InterpretOutcomes, MaxInputs)
    /\ ret = [i |-> 1, errors |-> << >>, results |-> << >>, thrown |-> Null, returned |-> << >>]

\* a driver that surfaces the most recent error instead of the first
ThrownLastError(errors) ==
    IF errors = << >> THEN Null ELSE errors[Len(errors)]

\* throw errors[0]: undefined when nothing was recorded
ThrownError(errors) ==
    IF errors = << >> THEN Null ELSE errors[1]

\* one round of the forEach callback of Planner.plan
PlanEach ==
    /\ pc = "plan_loop"
    /\ ret.i <= Len(call)
    /\ LET interpretation_ == call[ret.i]
       IN  ret' =
             IF interpretation_.thrown # Null
             THEN [ret EXCEPT !.i = @ + 1, !.errors = Append(@, interpretation_.thrown)]
             ELSE IF interpretation_.isNull
             THEN [ret EXCEPT !.i = @ + 1, !.errors = Append(@, "TypeError")]
             ELSE [ret EXCEPT !.i = @ + 1,
                              !.results = Append(@,
                                  [input |-> ret.i,
                                   value |-> IF Len(interpretation_.value) = 0
                                             THEN <<"That is already true!">>
                                             ELSE interpretation_.value])]
    /\ UNCHANGED <<worldVars, searchVars, pc, call>>

\* after the loop of Planner.plan: return the plans or throw
PlanReturn ==
    /\ pc = "plan_loop"
    /\ ret.i > Len(call)
    /\ ret' = IF Len(ret.results) # 0
              THEN [ret EXCEPT !.returned = ret.results]
              ELSE [ret EXCEPT !.thrown = ThrownError(ret.errors)]
    /\ pc' = IF Len(ret.results) # 0 THEN "driver_returned" ELSE "driver_threw"
    /\ UNCHANGED <<worldVars, searchVars, call>>

\* one round of the forEach callback of Interpreter.interpret
InterpretEach ==
    /\ pc = "interpret_loop"
    /\ ret.i <= Len(call)
    /\ LET parseresult == call[ret.i]
       IN  ret' =
             IF parseresult.thrown # Null
             THEN [ret EXCEPT !.i = @ + 1, !.errors = Append(@, parseresult.thrown)]
             ELSE [ret EXCEPT !.i = @ + 1,
                              !.results = Append(@, [input |-> ret.i, value |-> parseresult.value])]
    /\ UNCHANGED <<worldVars, searchVars, pc, call>>

\* after the loop of Interpreter.interpret: return the interpretations or throw
InterpretReturn ==
    /\ pc = "interpret_loop"
    /\ ret.i > Len(call)
    /\ ret' = IF Len(ret.results) # 0
              THEN [ret EXCEPT !.returned = ret.results]
              ELSE [ret EXCEPT !.thrown = ThrownError(ret.errors)]
    /\ pc' = IF Len(ret.results) # 0 THEN "driver_returned" ELSE "driver_threw"
    /\ UNCHANGED <<worldVars, searchVars, call>>

NextDriver == PlanEach \/ PlanReturn \/ InterpretEach \/ InterpretReturn

SpecDriver == InitDriver /\ [][NextDriver]_vars

\* the inputs for which the callee handed back a value the driver can use
Succeeds(input) == input.thrown = Null /\ ~ input.isNull

\* the error an input that does not succeed leaves behind
ErrorOf(input) == IF input.thrown # Null THEN input.thrown ELSE "TypeError"

\* the successful inputs, in input order, each with the value kept for it
SuccessesInOrder(inputs) ==
    LET idx == SelectSeq([n \in 1..Len(inputs) |-> n], LAMBDA n : Succeeds(inputs[n]))
    IN  [ n \in 1..Len(idx) |->
            [input |-> idx[n],
             value |-> IF inputs[idx[n]].value = << >>
                       THEN <<"That is already true!">>
                       ELSE inputs[idx[n]].value] ]

\* C7: both drivers try every input; when at least one succeeds the result is
\* exactly the successful ones in input order, and when none does the error
\* thrown is that of the first failing input.
DriverKeepsSuccessesOrFirstError ==
    /\ pc \in {"driver_returned", "driver_threw"} => ret.i = Len(call) + 1
    /\ (pc \in {"driver_returned", "driver_threw"} /\ \E n \in DOMAIN call : Succeeds(call[n])) =>
          /\ pc = "driver_returned"
          /\ ret.returned = SuccessesInOrder(call)
    /\ (pc \in {"driver_returned", "driver_threw"} /\ call # << >>
          /\ \A n \in DOMAIN call : ~ Succeeds(call[n])) =>
          /\ pc = "driver_threw"
          /\ ret.thrown = ErrorOf(call[1])

\* three inputs, the first and the last failing with different errors and the
\* middle one succeeding with an empty plan
DriverWitnessMixed ==
    /\ pc = "driver_returned"
    /\ Len(call) = 3
    /\ ~ Succeeds(call[1]) /\ Succeeds(call[2]) /\ ~ Succeeds(call[3])
    /\ call[2].value = << >>
    /\ Len(ret.returned) = 1

\* every input fails, the first error differing from the last
DriverWitnessAllFail ==
    /\ pc = "driver_threw"
    /\ Len(call) >= 2
    /\ ErrorOf(call[1]) # ErrorOf(call[Len(call)])
    /\ ret.thrown = ErrorOf(call[1])

\* ------------------------------------------------------------ the heuristic

\* the number an arithmetic operator or an ordering reads from a stack number:
\* null counts as 0
ToNumber(v) == IF v.kind = "null" THEN 0 ELSE v.n

\* x + y on JavaScript values: undefined and NaN give NaN
Plus(x, y) ==
    IF x.kind \in {"undefined", "NaN"} \/ y.kind \in {"undefined", "NaN"}
    THEN NaN
    ELSE Number(ToNumber(x) + ToNumber(y))

\* x < y on JavaScript values: false as soon as one side is NaN
LessThan(x, y) ==
    /\ x.kind \notin {"undefined", "NaN"}
    /\ y.kind \notin {"undefined", "NaN"}
    /\ ToNumber(x) < ToNumber(y)

Min(x, y) == IF x < y THEN x ELSE y

\* accessTargetObject: nrAbove is incremented only while foundTargetObject is
\* set, and the inner loop is left in the very round that sets it
accessTargetObject(targetObject, state) ==
    LET nrAbove == 0
    IN  IF \E n \in DOMAIN state.stacks :
              \E q \in DOMAIN state.stacks[n] : state.stacks[n][q] = targetObject
        THEN Number(nrAbove * 3)
        ELSE Number(0)

getHeuristicForGoal(_interpretation, state) ==
    LET sn0 == getStackNumber(state.stacks, _interpretation.args[1])
    IN
    IF _interpretation.relation = "holding"
    THEN Number(Abs(state.arm - ToNumber(sn0)))
    ELSE IF _interpretation.args[2] = "floor"
    THEN IF _interpretation.args[1] = state.holding
         THEN Number(1)
         ELSE Number(Abs(state.arm - ToNumber(sn0)))
    ELSE
    LET sn1 == getStackNumber(state.stacks, _interpretation.args[2])
        minArm == Number(Min(Abs(state.arm - ToNumber(sn0)), Abs(state.arm - ToNumber(sn1))))
        minMove ==
            IF _interpretation.relation \in {"inside", "ontop", "above", "under"}
            THEN Number(Abs(ToNumber(sn0) - ToNumber(sn1)))
            ELSE IF _interpretation.relation = "beside"
            THEN IF sn0 = sn1 THEN Number(1)
                 ELSE Number(Abs(ToNumber(sn0) - ToNumber(sn1)) - 1)
            ELSE IF _interpretation.relation = "leftof"
            THEN IF ToNumber(sn0) > ToNumber(sn1)
                 THEN Number(ToNumber(sn0) - ToNumber(sn1)) ELSE Number(0)
            ELSE IF _interpretation.relation = "rightof"
            THEN IF ToNumber(sn0) < ToNumber(sn1)
                 THEN Number(ToNumber(sn1) - ToNumber(sn0)) ELSE Number(0)
            ELSE Undefined
        minAccessTargetObject ==
            IF _interpretation.relation \in {"inside", "ontop", "above", "under"}
            THEN accessTargetObject(_interpretation.args[1], state)
            ELSE Undefined
    IN  Plus(Plus(minMove, minArm), minAccessTargetObject)

RECURSIVE heuristicFrom(_, _, _, _)
\* the loop of planInterpretation.heuristic from conjunction n on
heuristicFrom(formula, node, n, minHeuristic) ==
    IF n > Len(formula) THEN minHeuristic
    ELSE LET heuristicValue == getHeuristicForGoal(formula[n][1], node)
         IN  heuristicFrom(formula, node, n + 1,
                           IF LessThan(heuristicValue, Number(minHeuristic))
                           THEN heuristicValue.n ELSE minHeuristic)

\* planInterpretation.heuristic
heuristic(formula, node) == heuristicFrom(formula, node, 1, 9999999)

\* -------------------------------------------------------------- the search

\* the expansion ceiling planInterpretation hands to aStarSearch
Ceiling == 500

\* columns of the worlds that are planned in
PlanCols == 3

\* a comparison that finds every two nodes equal
compareNodesAlwaysEqual(one, theOther) == 0

\* a comparison that does not look at the arm
compareNodesNoArm(one, theOther) ==
    IF one.holding # theOther.holding THEN 1
    ELSE IF \E n \in DOMAIN theOther.stacks : \E q \in DOMAIN theOther.stacks[n] :
               \/ q > Len(one.stacks[n])
               \/ one.stacks[n][q] # theOther.stacks[n][q]
         THEN 1
    ELSE 0

\* a comparison that does not look at what is held
compareNodesNoHolding(one, theOther) ==
    IF one.arm # theOther.arm THEN 1
    ELSE IF \E n \in DOMAIN theOther.stacks : \E q \in DOMAIN theOther.stacks[n] :
               \/ q > Len(one.stacks[n])
               \/ one.stacks[n][q] # theOther.stacks[n][q]
         THEN 1
    ELSE 0

\* SGraph.compareNodes: 0 when holding and arm agree and every slot of
\* theOther's stacks is filled with the same key in one's stacks
compareNodes(one, theOther) ==
    IF one.holding # theOther.holding THEN 1
    ELSE IF one.arm # theOther.arm THEN 1
    ELSE IF \E n \in DOMAIN theOther.stacks : \E q \in DOMAIN theOther.stacks[n] :
               \/ q > Len(one.stacks[n])
               \/ one.stacks[n][q] # theOther.stacks[n][q]
         THEN 1
    ELSE 0

\* a frontier entry: a node, its cost so far, cost plus estimate, and the
\* nodes that lead to it from the start node (the start node left out)
Entry(node, g, f, path_) == [node |-> node, g |-> g, f |-> f, path |-> path_]

\* the entry best-first search takes next: one of least f; among those the
\* oldest or the newest, as the tie policy says
Best(frontier_, tie) ==
    LET least == { k \in DOMAIN frontier_ :
                     \A k2 \in DOMAIN frontier_ : frontier_[k].f <= frontier_[k2].f }
    IN  IF tie = "oldest"
        THEN CHOOSE k \in least : \A k2 \in least : k <= k2
        ELSE CHOOSE k \in least : \A k2 \in least : k >= k2

\* the entries for the edges out of an expanded entry that lead somewhere new
Successors(formula, entry, visited_) ==
    LET edges == SelectSeq(outgoingEdges(entry.node), LAMBDA e : e.to \notin visited_)
    IN  [ k \in DOMAIN edges |->
            Entry(edges[k].to, entry.g + 1,
                  entry.g + 1 + heuristic(formula, edges[k].to),
                  Append(entry.path, edges[k].to)) ]

\* one round of aStarSearch: take the best entry; stop with its path when it
\* is a goal, stop without a result when the frontier is empty or the ceiling
\* is reached, else expand it
AStarStep ==
    /\ pc = "search"
    /\ IF frontier = << >>
       THEN /\ pc' = "no_result"
            /\ UNCHANGED <<frontier, visited, expanded, path>>
       ELSE LET entry == frontier[Best(frontier, call.tie)]
            IN  IF isGoal(interpretation, entry.node)
                THEN /\ pc' = "found"
                     /\ path' = entry.path
                     /\ UNCHANGED <<frontier, visited, expanded>>
                ELSE IF expanded >= Ceiling
                THEN /\ pc' = "no_result"
                     /\ UNCHANGED <<frontier, visited, expanded, path>>
                ELSE /\ pc' = "search"
                     /\ expanded' = expanded + 1
                     /\ visited' = visited \cup {entry.node}
                     /\ frontier' = SelectSeq(frontier, LAMBDA e : e.node # entry.node)
                                    \o Successors(interpretation, entry, visited')
                     /\ UNCHANGED path
    /\ UNCHANGED <<worldVars, interpretation, plan, call, ret>>

RECURSIVE generatePlan(_, _)
\* the plan generation loop of planInterpretation over result.path with the
\* start node put in front: the commands of the edges that compare equal to
\* the next node of the path
generatePlan(nodes, i) ==
    IF i > Len(nodes) - 1 THEN << >>
    ELSE LET edges == outgoingEdges(nodes[i])
             pathNode == nodes[i + 1]
             hits == SelectSeq(edges, LAMBDA e : compareNodes(pathNode, e.to) = 0)
         IN  [ j \in DOMAIN hits |-> hits[j].command ] \o generatePlan(nodes, i + 1)

\* planInterpretation after a successful search
ReturnPlan ==
    /\ pc = "found"
    /\ plan' = generatePlan(<<current>> \o path, 1)
    /\ pc' = "returned"
    /\ UNCHANGED <<worldVars, interpretation, frontier, visited, expanded, path, call, ret>>

\* plan without the notice for an empty plan
AlreadyTrueOmitted(plan_) == plan_

\* Planner.plan: an empty plan is replaced by the notice
AlreadyTrueNotice(plan_) ==
    IF Len(plan_) = 0 THEN <<"That is already true!">> ELSE plan_

\* Planner.plan around a plan that planInterpretation returned
PlanNotice ==
    /\ pc = "returned"
    /\ ret' = [thrown |-> Null, plans |-> << AlreadyTrueNotice(plan) >>]
    /\ pc' = "plan_done"
    /\ UNCHANGED <<worldVars, searchVars, call>>

\* planInterpretation returns null; Planner.plan reads result.plan.length,
\* records the TypeError and, with no plan collected, throws it
ReturnNull ==
    /\ pc = "no_result"
    /\ ret' = [thrown |-> ThrownError(<<"TypeError">>), plans |-> << >>]
    /\ pc' = "plan_failed"
    /\ UNCHANGED <<worldVars, searchVars, call>>

\* no key rests on a key that the placement rules forbid it to rest on
Stable(stacks_) ==
    \A n \in DOMAIN stacks_ : \A q \in 2..Len(stacks_[n]) :
        \/ isMoveValid(stacks_[n][q], "ontop", stacks_[n][q - 1])
        \/ isMoveValid(stacks_[n][q], "inside", stacks_[n][q - 1])

\* the keys of the small planning worlds: a large brick and a large box
PlanKeys == {"a", "k"}

\* the literals goals are built from
PlanLiterals ==
    { Literal(TRUE, "holding", <<x>>) : x \in PlanKeys }
    \cup { Literal(TRUE, "ontop", <<x, "floor">>) : x \in PlanKeys }
    \cup { Literal(TRUE, rxy[1], <<rxy[2], rxy[3]>>) :
             rxy \in { t \in Relations \X PlanKeys \X PlanKeys : t[2] # t[3] } }

\* single literals, a holding literal or another literal, and conjunctions
\* that start with a literal about the floor or the gripper
PlanFormulas ==
    { << <<l1>> >> : l1 \in PlanLiterals }
    \cup { << <<l1>>, <<l2>> >> :
             l1 \in HoldingLiterals(PlanKeys), l2 \in PlanLiterals \ HoldingLiterals(PlanKeys) }
    \cup { << <<l1, l2>> >> :
             l1 \in { Literal(TRUE, "holding", <<"a">>), Literal(TRUE, "ontop", <<"k", "floor">>) },
             l2 \in { Literal(TRUE, "ontop", <<"a", "floor">>), Literal(TRUE, "inside", <<"a", "k">>),
                      Literal(TRUE, "leftof", <<"a", "k">>) } }

\* a world of four keys and a goal about a key that is not in it
InitPlanLarge ==
    /\ placed = {"a", "b", "c", "d"}
    /\ holding = Null
    /\ stacks = << <<"a", "b">>, <<"c", "d">>, << >> >>
    /\ arm = 0
    /\ interpretation = << << Literal(TRUE, "holding", <<"e">>) >> >>

InitPlanSmall ==
    /\ placed = PlanKeys
    /\ holding \in placed \cup {Null}
    /\ stacks \in { w \in Arrangements(placed \ {holding}, PlanCols) : Stable(w) }
    /\ arm \in 0..(PlanCols - 1)
    /\ interpretation \in PlanFormulas

InitPlan ==
    /\ InitPlanSmall \/ InitPlanLarge
    /\ call \in { [tie |-> t] : t \in {"oldest", "newest"} }
    /\ frontier = << Entry(current, 0, heuristic(interpretation, current), << >>) >>
    /\ visited = {}
    /\ expanded = 0
    /\ path = << >>
    /\ plan = << >>
    /\ pc = "search"
    /\ ret = Null

NextPlan == AStarStep \/ ReturnPlan \/ PlanNotice \/ ReturnNull

SpecPlan == InitPlan /\ [][NextPlan]_vars

RECURSIVE Execute(_, _, _)
\* run the tokens of a plan from token i on through outgoingEdges; ok says
\* that every token was the command of an edge where it was applied
Execute(node, tokens, i) ==
    IF i > Len(tokens) THEN [ok |-> TRUE, node |-> node]
    ELSE LET edges == SelectSeq(outgoingEdges(node), LAMBDA e : e.command = tokens[i])
         IN  IF Len(edges) = 0 THEN [ok |-> FALSE, node |-> node]
             ELSE Execute(edges[1].to, tokens, i + 1)

RECURSIVE Distance(_, _, _, _)
\* the least number of transitions from the nodes of level, themselves d
\* transitions from the start, to a node that satisfies the formula; -1 when
\* there is none
Distance(level, seen, formula, d) ==
    IF level = {} THEN 0 - 1
    ELSE IF \E node \in level : FormulaSatisfied(formula, node) THEN d
    ELSE LET next == UNION { { outgoingEdges(node)[k].to : k \in DOMAIN outgoingEdges(node) } :
                             node \in level }
         IN  Distance(next \ seen, seen \cup next, formula, d + 1)

\* C2: a non-empty plan returned by planInterpretation, executed token by
\* token from the start state with the planner's own transitions, has every
\* token enabled where it is applied and ends in a state the goal test accepts.
PlanReachesGoal ==
    (pc = "returned" /\ plan # << >>) =>
        LET end == Execute(current, plan, 1)
        IN  end.ok /\ isGoal(interpretation, end.node)

\* a returned plan that moves the arm, picks a key up and puts it down
PlanReachesGoalWitness ==
    /\ pc = "returned"
    /\ Len(plan) >= 4
    /\ \E i, j, k \in DOMAIN plan :
          plan[i] = "p" /\ plan[j] = "d" /\ plan[k] \in {"l", "r"}

\* C3: a returned plan is minimal: no shorter sequence of enabled transitions
\* from the start state reaches a state that satisfies a disjunct of the
\* formula.
PlanIsMinimal ==
    pc = "returned" =>
        LET d == Distance({current}, {current}, interpretation, 0)
        IN  d < 0 \/ Len(plan) <= d

\* C5: when the goal test accepts the start state, nothing is expanded, the
\* search result and the plan are empty, and Planner.plan hands back the
\* single notice.
AlreadyTrueIsImmediate ==
    isGoal(interpretation, current) =>
        /\ expanded = 0
        /\ pc \notin {"no_result", "plan_failed"}
        /\ path = << >>
        /\ pc \in {"returned", "plan_done"} => plan = << >>
        /\ pc = "plan_done" => ret.plans = << <<"That is already true!">> >>

\* the start state satisfies every literal of a conjunction and the driver
\* has answered
AlreadyTrueWitness ==
    /\ pc = "plan_done"
    /\ FormulaSatisfied(interpretation, current)
    /\ ret.plans = << <<"That is already true!">> >>

\* C6: for a goal that no reachable state satisfies the planner ends in a
\* failure and never hands back a plan.
UnsatisfiableGoalFails ==
    (pc \in {"plan_done", "plan_failed"}
       /\ Distance({current}, {current}, interpretation, 0) < 0)
    => pc = "plan_failed"

\* ------------------------------------------ the contracts of interpretCommand

\* a key passes the form / color / size filters of a plain description
Matches(object, key) ==
    /\ (object.form = objects[key].form \/ object.form = "anyform")
    /\ (object.color = objects[key].color \/ object.color = Null)
    /\ (object.size = objects[key].size \/ object.size = Null)

\* the keys a plain description stands for in a state whose objects are the
\* placed ones
Described(object, state) ==
    IF object.form = "floor" THEN {"floor"}
    ELSE { key \in placed : Matches(object, key) }

\* the candidate target objects of a command that names an object: what its
\* description stands for, narrowed by the nested relation when there is one
Candidates(cmd, state) ==
    LET object == cmd.entity[1].object
    IN  IF object.location = << >>
        THEN Described(object, state) \cap placed
        ELSE { key \in Described(object.object[1], state) :
                 \E other \in Described(object.location[1].entity.object, state) :
                    relationExistsInWorld(
                        ObjectRelations(key, object.location[1].relation, other), state) }

\* the literals of a formula
LiteralsOf(formula) ==
    UNION { { formula[n][q] : q \in DOMAIN formula[n] } : n \in DOMAIN formula }

\* the candidate targets the loop of interpretCommand runs over
Targets(cmd, state) ==
    IF cmd.entity = << >> THEN {"itself"} ELSE Candidates(cmd, state)

\* the literals getPossibleMoves produces over all candidate targets
Produced(cmd, state) ==
    UNION { LET moves == getPossibleMoves(cmd.command, target, cmd.location, state)
            IN  { moves[n] : n \in DOMAIN moves } :
            target \in Targets(cmd, state) }

\* the relations the loop of interpretCommand runs over, one per candidate
\* target and matching location object
objectRelationsOf(cmd, state) ==
    IF cmd.entity # << >>
    THEN getObjectRelationsThatExistsInWorld(
             getRequestedObjectRelations(cmd.entity[1].object, state), state)
    ELSE << ObjectRelations("itself", Null, Null) >>

RECURSIVE SumFrom(_, _)
\* the sum of a sequence of numbers from index n on
SumFrom(numbers, n) ==
    IF n > Len(numbers) THEN 0 ELSE numbers[n] + SumFrom(numbers, n + 1)

\* the number of literals getPossibleMoves hands back over the rounds of the
\* loop of interpretCommand
ProducedCount(cmd, state) ==
    LET relations == objectRelationsOf(cmd, state)
    IN  SumFrom([ n \in DOMAIN relations |->
                    Len(getPossibleMoves(cmd.command, relations[n].targetObject,
                                         cmd.location, state)) ], 1)

\* C11: a returned formula has one conjunction per produced literal, each
\* conjunction holding exactly one literal, of polarity true.
SingleLiteralConjunctions ==
    (pc = "interpret_done" /\ ret.thrown = Null) =>
        /\ \A n \in DOMAIN ret.formula :
              Len(ret.formula[n]) = 1 /\ ret.formula[n][1].polarity = TRUE
        /\ LiteralsOf(ret.formula) = Produced(call, current)
        /\ Len(ret.formula) = ProducedCount(call, current)

\* a formula of at least three conjunctions
SingleLiteralWitness ==
    /\ pc = "interpret_done"
    /\ ret.thrown = Null
    /\ Len(ret.formula) >= 3

\* C12 (the nested relation read as the interpreter's own tests read it): a
\* command that names an object which nothing in the world matches, its
\* nested relation included, fails with "No possible objects found" and
\* yields no formula.
NoObjectFound ==
    (pc = "interpret_done" /\ call.entity # << >> /\ Candidates(call, current) = {}) =>
        ret.thrown = "No possible objects found" /\ ret.formula = << >>

\* objects match the description, none of them stands in the nested relation
NoObjectFoundWitness ==
    /\ pc = "interpret_done"
    /\ call.entity # << >>
    /\ call.entity[1].object.location # << >>
    /\ Described(call.entity[1].object.object[1], current) # {}
    /\ Candidates(call, current) = {}
    /\ ret.thrown = "No possible objects found"

\* C13: interpretCommand never returns an empty formula; with candidate
\* targets and no literal for any of them it fails with "No possible objects
\* to move".
NeverEmptyFormula ==
    pc = "interpret_done" =>
        /\ ret.thrown = Null => ret.formula # << >>
        /\ (Targets(call, current) # {} /\ Produced(call, current) = {}) =>
              ret.thrown = "No possible objects to move" /\ ret.formula = << >>

\* an object is named and found, and no placement of it is valid
NeverEmptyWitness ==
    /\ pc = "interpret_done"
    /\ call.entity # << >>
    /\ Candidates(call, current) # {}
    /\ ret.thrown = "No possible objects to move"

\* C14: a possession command that names an object returns exactly the
\* literals holding(k), k a candidate target that is not the floor.
PossessionLiterals ==
    (pc = "interpret_done" /\ call.command \in {"take", "grasp", "pick up"}
       /\ call.entity # << >> /\ Candidates(call, current) \ {"floor"} # {}) =>
        /\ ret.thrown = Null
        /\ LiteralsOf(ret.formula) =
              { Literal(TRUE, "holding", <<k>>) : k \in Candidates(call, current) \ {"floor"} }

\* "grasp" of a description that two objects of the world match
PossessionWitness ==
    /\ pc = "interpret_done"
    /\ call.command = "grasp"
    /\ ret.thrown = Null
    /\ Len(ret.formula) = 2
    /\ Cardinality(Candidates(call, current)) = 2

\* C15: a placement command that names no object, given while the gripper is
\* empty, produces no literal and fails with "No possible objects to move".
NothingHeldNothingPlaced ==
    (pc = "interpret_done" /\ call.command \in {"move", "put", "drop"}
       /\ call.entity = << >> /\ holding = Null) =>
        /\ getPossibleMoves(call.command, "itself", call.location, current) = << >>
        /\ ret.thrown = "No possible objects to move"
        /\ ret.formula = << >>

\* the gripper is empty and the location named exists and would be valid
NothingHeldWitness ==
    /\ pc = "interpret_done"
    /\ call.command = "put"
    /\ call.entity = << >>
    /\ holding = Null
    /\ \E n \in DOMAIN LocationKeys(call.location[1], current) :
          isMoveValid("itself", call.location[1].relation,
                      LocationKeys(call.location[1], current)[n])
    /\ ret.thrown = "No possible objects to move"

\* --------------------------------------------- the transitions one by one

\* outgoingEdges of the current state has an edge with the given command
Generated(command) ==
    \E n \in DOMAIN outgoingEdges(current) : outgoingEdges(current)[n].command = command

\* every column but the one under the arm is the same after the step
OtherColumnsUnchanged ==
    /\ Len(stacks') = Len(stacks)
    /\ \A c \in DOMAIN stacks : c # arm + 1 => stacks'[c] = stacks[c]

\* C16: the arm stays over one of the columns, 0 <= arm < |stacks|, and the
\* number of columns never changes.
ArmWithinColumns ==
    pc = "world" => (0 <= arm /\ arm < Len(stacks) /\ Len(stacks) = NumCols)

\* the arm has moved to the last column, and has moved to the first one
ArmWithinColumnsWitness ==
    /\ pc = "world"
    /\ \/ ret = "r" /\ arm = NumCols - 1
       \/ ret = "l" /\ arm = 0

\* what has to hold for a drop: something is held, and the column under the
\* arm is empty or its top object accepts the held one on top or inside
DropAllowed ==
    /\ holding # Null
    /\ \/ Len(stacks[arm + 1]) = 0
       \/ isMoveValid(holding, "ontop", stacks[arm + 1][Len(stacks[arm + 1])])
       \/ isMoveValid(holding, "inside", stacks[arm + 1][Len(stacks[arm + 1])])

\* C17: the drop transition is generated iff something is held and the column
\* under the arm is empty or takes the held object on top or inside; it puts
\* the held object on top of that column, empties the gripper and leaves the
\* arm and the other columns alone.
DropFrame ==
    [][ /\ Generated("d") <=> DropAllowed
        /\ ret' = "d" =>
              /\ DropAllowed
              /\ stacks'[arm + 1] = Append(stacks[arm + 1], holding)
              /\ holding' = Null
              /\ arm' = arm
              /\ OtherColumnsUnchanged ]_vars

\* an object has been dropped onto another one
DropWitness ==
    /\ pc = "world"
    /\ ret = "d"
    /\ holding = Null
    /\ Len(stacks[arm + 1]) >= 2

\* C18: the pick transition is generated iff nothing is held and the column
\* under the arm is not empty; it moves the top object of that column into
\* the gripper and leaves the arm and the other columns alone.
PickFrame ==
    [][ /\ Generated("p") <=> (holding = Null /\ Len(stacks[arm + 1]) > 0)
        /\ ret' = "p" =>
              /\ holding = Null
              /\ Len(stacks[arm + 1]) > 0
              /\ holding' = stacks[arm + 1][Len(stacks[arm + 1])]
              /\ stacks'[arm + 1] = SubSeq(stacks[arm + 1], 1, Len(stacks[arm + 1]) - 1)
              /\ arm' = arm
              /\ OtherColumnsUnchanged ]_vars

\* an object has been picked from a column that keeps another one
PickWitness ==
    /\ pc = "world"
    /\ ret = "p"
    /\ holding # Null
    /\ Len(stacks[arm + 1]) >= 1

\* C19: the arm-right transition is generated iff arm < |stacks| - 1; it adds
\* one to arm and leaves the stacks and the gripper alone.
ArmRightFrame ==
    [][ /\ Generated("r") <=> arm < Len(stacks) - 1
        /\ ret' = "r" =>
              /\ arm < Len(stacks) - 1
              /\ arm' = arm + 1
              /\ stacks' = stacks
              /\ holding' = holding ]_vars

\* the arm has moved right while holding an object
ArmRightWitness ==
    /\ pc = "world"
    /\ ret = "r"
    /\ arm > 0
    /\ holding # Null

\* C20: the arm-left transition is generated iff arm > 0; it takes one from
\* arm and leaves the stacks and the gripper alone.
ArmLeftFrame ==
    [][ /\ Generated("l") <=> arm > 0
        /\ ret' = "l" =>
              /\ arm > 0
              /\ arm' = arm - 1
              /\ stacks' = stacks
              /\ holding' = holding ]_vars

\* the arm has moved left while holding an object
ArmLeftWitness ==
    /\ pc = "world"
    /\ ret = "l"
    /\ arm < NumCols - 1
    /\ holding # Null

\* ---------------------------------------------- compareNodes as a function

\* the keys of the nodes that are compared: a large brick and a large ball
CompareKeys == {"a", "e"}

\* the nodes over any of the keys, each key held or in one of the columns
CompareNodes ==
    UNION { { SNode(w, a, h) :
                w \in Arrangements(K \ {h}, NumCols), a \in 0..(NumCols - 1) } :
            <<K, h>> \in { Kh \in (SUBSET CompareKeys) \X (CompareKeys \cup {Null}) :
                             Kh[2] = Null \/ Kh[2] \in Kh[1] } }

InitCompare ==
    /\ IdleWorld
    /\ IdleSearch
    /\ pc = "compare_call"
    /\ call \in [one : CompareNodes, theOther : CompareNodes]
    /\ ret = Null

CallCompareNodes ==
    /\ pc = "compare_call"
    /\ ret' = compareNodes(call.one, call.theOther)
    /\ pc' = "compare_done"
    /\ UNCHANGED <<worldVars, searchVars, call>>

NextCompare == CallCompareNodes

SpecCompare == InitCompare /\ [][NextCompare]_vars

\* C21: for two states with the same number of columns compareNodes returns
\* 0 iff holding, arm and the contents of every column are the same, and so
\* it returns the same in both directions.
CompareIsStructural ==
    pc = "compare_done" =>
        /\ (ret = 0) <=> (/\ call.one.holding = call.theOther.holding
                          /\ call.one.arm = call.theOther.arm
                          /\ call.one.stacks = call.theOther.stacks)
        /\ ret = compareNodes(call.theOther, call.one)

\* --------------------------------------------------- plan reconstruction

\* C22: the generated plan has exactly one token per consecutive pair of
\* states of the found path, the start state in front: the token of the edge
\* that leads from the first state of the pair to the second, one of l, r, p
\* and d; so the plan is as long as the path has transitions.
OneTokenPerTransition ==
    pc = "returned" =>
        LET nodes == <<current>> \o path
        IN  /\ Len(plan) = Len(nodes) - 1
            /\ \A i \in DOMAIN plan :
                  /\ plan[i] \in {"l", "r", "p", "d"}
                  /\ \E n \in DOMAIN outgoingEdges(nodes[i]) :
                        /\ outgoingEdges(nodes[i])[n].command = plan[i]
                        /\ outgoingEdges(nodes[i])[n].to = nodes[i + 1]

\* a plan of five tokens or more that uses all four of them
OneTokenWitness ==
    /\ pc = "returned"
    /\ Len(path) >= 5
    /\ Len(plan) = Len(path)
    /\ {"l", "r", "p", "d"} \subseteq { plan[i] : i \in DOMAIN plan }

\* ------------------------------------------- the relations as functions

\* columns of the worlds the relations are evaluated in
RelCols == 3

\* the keys of those worlds: a large ball, a large table and a large box
RelKeys == {"e", "g", "k"}

InitRelation ==
    /\ placed \in SUBSET RelKeys
    /\ holding \in placed \cup {Null}
    /\ stacks \in Arrangements(placed \ {holding}, RelCols)
    /\ arm = 0
    /\ IdleSearch
    /\ pc = "relation_call"
    /\ call \in [relation : Relations,
                 first : RelKeys \cup {"floor"},
                 second : RelKeys \cup {"floor"}]
    /\ ret = Null

\* the relation between two objects as the goal test reads it and as the
\* resolver reads it
CallRelation ==
    /\ pc = "relation_call"
    /\ ret' = [goal |-> isInterpretationInCurrentWorldstate(
                            Literal(TRUE, call.relation, <<call.first, call.second>>), current),
               world |-> relationExistsInWorld(
                            ObjectRelations(call.first, call.relation, call.second), current)]
    /\ pc' = "relation_done"
    /\ UNCHANGED <<worldVars, searchVars, call>>

NextRelation == CallRelation

SpecRelation == InitRelation /\ [][NextRelation]_vars

\* the object is in one of the stacks
InStacks(x) == \E c \in DOMAIN stacks : \E q \in DOMAIN stacks[c] : stacks[c][q] = x

\* the column (counted from 0) of an object that is in one of the stacks
ColumnOf(x) ==
    (CHOOSE c \in DOMAIN stacks : \E q \in DOMAIN stacks[c] : stacks[c][q] = x) - 1

\* upper is the element right after lower in some stack
Follows(lower, upper) ==
    \E c \in DOMAIN stacks : \E q \in DOMAIN stacks[c] :
        q + 1 <= Len(stacks[c]) /\ stacks[c][q] = lower /\ stacks[c][q + 1] = upper

\* the object is the bottom element of some stack
AtBottom(x) == \E c \in DOMAIN stacks : Len(stacks[c]) >= 1 /\ stacks[c][1] = x

\* a call for the given relation has been answered, the same way by the goal
\* test and by the resolver
Answered(relation) ==
    pc = "relation_done" /\ call.relation = relation /\ ret.goal = ret.world

\* C23: for an object above that is not the floor, ontop(above, below) holds
\* iff below is not a box and either above comes right after below in some
\* stack or below is the floor and above is the bottom of some stack.
OnTopNeverOnBox ==
    (pc = "relation_done" /\ call.relation = "ontop" /\ call.first # "floor") =>
        /\ ret.goal = ret.world
        /\ ret.goal <=> /\ call.second \in Keys => objects[call.second].form # "box"
                        /\ \/ Follows(call.second, call.first)
                           \/ call.second = "floor" /\ AtBottom(call.first)

\* C24: inside(item, container) holds iff the container is not a table and
\* the item comes right after the container in some stack.
InsideNeverInTable ==
    (pc = "relation_done" /\ call.relation = "inside") =>
        /\ ret.goal = ret.world
        /\ ret.goal <=> /\ call.second \in Keys => objects[call.second].form # "table"
                        /\ Follows(call.second, call.first)

\* the ball lies right on the box and inside(ball, box) is answered
InsideWitness ==
    /\ Answered("inside")
    /\ call.first = "e" /\ call.second = "k"
    /\ Follows("k", "e")
    /\ ret.goal

\* C25: for objects a and b other than the floor under(a, b) holds iff
\* above(b, a) holds, and under never holds when a or b is the floor.
UnderMirrorsAbove ==
    (pc = "relation_done" /\ call.relation = "under") =>
        /\ ret.goal = ret.world
        /\ IF call.first = "floor" \/ call.second = "floor"
           THEN ~ ret.goal
           ELSE ret.goal <=> isInterpretationInCurrentWorldstate(
                                 Literal(TRUE, "above", <<call.second, call.first>>), current)

\* under(a, b) is answered with yes for a table with something between it
\* and the ball
UnderWitness ==
    /\ Answered("under")
    /\ ret.goal
    /\ call.first = "g" /\ call.second = "e"
    /\ ~ Follows("g", "e")

\* C26: leftof(a, b) holds iff a and b are both in stacks and the column of a
\* is less than that of b; rightof(a, b) iff it is greater; so leftof(a, b)
\* iff rightof(b, a), and both are false for objects in one column and for a
\* held or absent object.
LeftOfRightOfByColumn ==
    (pc = "relation_done" /\ call.relation \in {"leftof", "rightof"}) =>
        /\ ret.goal = ret.world
        /\ call.relation = "leftof" =>
              /\ ret.goal <=> /\ InStacks(call.first) /\ InStacks(call.second)
                              /\ ColumnOf(call.first) < ColumnOf(call.second)
              /\ ret.goal <=> isRightOf(stacks, call.second, call.first)
        /\ call.relation = "rightof" =>
              /\ ret.goal <=> /\ InStacks(call.first) /\ InStacks(call.second)
                              /\ ColumnOf(call.first) > ColumnOf(call.second)
              /\ ret.goal <=> isLeftOf(stacks, call.second, call.first)

\* leftof is answered with yes for two objects two columns apart
LeftOfWitness ==
    /\ Answered("leftof")
    /\ ret.goal
    /\ ColumnOf(call.second) - ColumnOf(call.first) = 2

\* C27: beside(a, b) holds iff a and b are both in stacks and their columns
\* differ by exactly 1; it is false for objects in one column, for a = b and
\* for a held or absent object.
BesideByColumn ==
    (pc = "relation_done" /\ call.relation = "beside") =>
        /\ ret.goal = ret.world
        /\ ret.goal <=> /\ InStacks(call.first) /\ InStacks(call.second)
                        /\ Abs(ColumnOf(call.first) - ColumnOf(call.second)) = 1

\* beside is answered with no for two objects two columns apart
BesideWitness ==
    /\ Answered("beside")
    /\ ~ ret.goal
    /\ InStacks(call.first) /\ InStacks(call.second)
    /\ Abs(ColumnOf(call.first) - ColumnOf(call.second)) = 2

\* ------------------------------------- the candidates of a nested description

\* upper is somewhere after lower in one stack
Higher(lower, upper) ==
    \E c \in DOMAIN stacks : \E q, q2 \in DOMAIN stacks[c] :
        q < q2 /\ stacks[c][q] = lower /\ stacks[c][q2] = upper

\* the form of a key, "floor" for the floor
FormOf(x) == IF x = "floor" THEN "floor" ELSE objects[x].form

\* first stands in the relation to second in the current state
Stands(relation, first, second) ==
    IF relation = "ontop"
    THEN /\ first # "floor" /\ FormOf(second) # "box"
         /\ Follows(second, first) \/ (second = "floor" /\ AtBottom(first))
    ELSE IF relation = "inside"
    THEN FormOf(second) # "table" /\ Follows(second, first)
    ELSE IF relation = "above"
    THEN first # "floor" /\ (Higher(second, first) \/ (second = "floor" /\ InStacks(first)))
    ELSE IF relation = "under"
    THEN first # "floor" /\ second # "floor" /\ Higher(first, second)
    ELSE IF relation = "beside"
    THEN /\ InStacks(first) /\ InStacks(second)
         /\ Abs(ColumnOf(first) - ColumnOf(second)) = 1
    ELSE IF relation = "leftof"
    THEN InStacks(first) /\ InStacks(second) /\ ColumnOf(first) < ColumnOf(second)
    ELSE IF relation = "rightof"
    THEN InStacks(first) /\ InStacks(second) /\ ColumnOf(first) > ColumnOf(second)
    ELSE FALSE

\* the objects of the world a description stands for: those that pass its
\* filters and, when it nests a location, stand in the nested relation to an
\* object that passes the filters of the location
Standing(object) ==
    IF object.location = << >>
    THEN Described(object, current) \cap placed
    ELSE { key \in Described(object.object[1], current) \cap placed :
             \E other \in Described(object.location[1].entity.object, current) :
                Stands(object.location[1].relation, key, other) }

\* the target objects interpretCommand goes through for the called command
TargetObjects ==
    LET relations == objectRelationsOf(call, current)
    IN  { relations[n].targetObject : n \in DOMAIN relations }

\* C28: for a command whose object description nests a location the target
\* objects interpretCommand goes through are exactly the objects of the world
\* that pass the filters of the description and stand in the nested relation
\* to an object that passes the filters of the nested location.
NestedCandidatesStand ==
    (pc = "interpret_done" /\ call.entity # << >>
        /\ call.entity[1].object.location # << >>) =>
        TargetObjects = Standing(call.entity[1].object)

\* C12 (the nested relation read as Stands reads it): a command that names an
\* object which nothing in the world stands for fails with "No possible
\* objects found" and yields no formula.
NoObjectStanding ==
    (pc = "interpret_done" /\ call.entity # << >>
        /\ Standing(call.entity[1].object) = {}) =>
        ret.thrown = "No possible objects found" /\ ret.formula = << >>

\* ------------------------------------------- getObjectKeys as a function

\* the plain descriptions the parser can produce over some forms, sizes and
\* colors: the form is always given, size and color may be null
KeyDescriptions ==
    { PlainObject(form, size, color) :
        form \in {"anyform", "ball", "box", "table", "floor"},
        size \in {Null, "large", "small"},
        color \in {Null, "white", "black", "yellow"} }

InitKeys ==
    /\ placed \in { S \in SUBSET InterpKeys : Cardinality(S) \in 1..MaxObjs }
    /\ holding \in placed \cup {Null}
    /\ stacks \in Arrangements(placed \ {holding}, NumCols)
    /\ arm = 0
    /\ IdleSearch
    /\ pc = "keys_call"
    /\ call \in KeyDescriptions
    /\ ret = Null

CallGetObjectKeys ==
    /\ pc = "keys_call"
    /\ ret' = getObjectKeys(call, current)
    /\ pc' = "keys_done"
    /\ UNCHANGED <<worldVars, searchVars, call>>

NextKeys == CallGetObjectKeys

SpecKeys == InitKeys /\ [][NextKeys]_vars

\* a filter field that is null, or a form filter that is anyform, lets every
\* value through; any other lets through the equal value only
Passes(filter, value) == filter \in {Null, "anyform"} \/ filter = value

PolarityFormulas(K) ==
    { << <<Literal(b, "holding", <<x>>)>> >> : b \in BOOLEAN, x \in K }
    \cup { << <<Literal(b, r, <<x, y>>)>> >> :
             b \in BOOLEAN, r \in Relations,
             x \in K \cup {"floor"}, y \in K \cup {"floor"} }

InitPolarity ==
    /\ placed \in { S \in SUBSET GoalKeys : Cardinality(S) = 2 }
    /\ holding \in placed \cup {Null}
    /\ stacks \in Arrangements(placed \ {holding}, NumCols)
    /\ arm \in 0..(NumCols - 1)
    /\ interpretation \in PolarityFormulas(placed)
    /\ frontier = << >>
    /\ visited = {}
    /\ expanded = 0
    /\ path = << >>
    /\ plan = << >>
    /\ pc = "goal_call"
    /\ call = Null
    /\ ret = Null

SpecPolarity == InitPolarity /\ [][NextGoal]_vars

\* C30: the goal test accepts a literal of polarity true exactly when its
\* relation holds in the state and a literal of polarity false exactly when
\* its relation does not hold.
PolarityRespected ==
    pc = "goal_done" =>
        LET lit == interpretation[1][1]
            holds == isInterpretationInCurrentWorldstate(
                         Literal(TRUE, lit.relation, lit.args), current)
        IN  ret = IF lit.polarity THEN holds ELSE ~ holds

\* ------------------------------------------- the heuristic as a function

\* formulas of one literal and of two single-literal conjunctions
HeuristicFormulas(K) ==
    { << <<l1>> >> : l1 \in Literals(K) }
    \cup { << <<l1>>, <<l2>> >> : l1 \in Literals(K), l2 \in HoldingLiterals(K) }

InitHeuristic ==
    /\ placed \in { S \in SUBSET GoalKeys : Cardinality(S) \in 2..MaxObjs }
    /\ holding \in placed \cup {Null}
    /\ stacks \in Arrangements(placed \ {holding}, NumCols)
    /\ arm \in 0..(NumCols - 1)
    /\ interpretation \in HeuristicFormulas(placed)
    /\ frontier = << >>
    /\ visited = {}
    /\ expanded = 0
    /\ path = << >>
    /\ plan = << >>
    /\ pc = "heuristic_call"
    /\ call = Null
    /\ ret = Null

\* the value of the heuristic at the node, and the value of each conjunction
CallHeuristic ==
    /\ pc = "heuristic_call"
    /\ ret' = [node |-> heuristic(interpretation, current),
               goals |-> [ n \in DOMAIN interpretation |->
                             getHeuristicForGoal(interpretation[n][1], current) ]]
    /\ pc' = "heuristic_done"
    /\ UNCHANGED <<worldVars, searchVars, call>>

NextHeuristic == CallHeuristic

SpecHeuristic == InitHeuristic /\ [][NextHeuristic]_vars

\* the number of objects after x in its stack
NrAbove(x) ==
    LET c == ColumnOf(x) + 1
        q == CHOOSE q \in DOMAIN stacks[c] : stacks[c][q] = x
    IN  Len(stacks[c]) - q

\* the heuristic was evaluated for a formula of one literal with the given
\* relations, its two objects being different and in stacks
OneLiteralInStacks(relations) ==
    /\ pc = "heuristic_done"
    /\ Len(interpretation) = 1
    /\ interpretation[1][1].relation \in relations
    /\ interpretation[1][1].args[1] # interpretation[1][1].args[2]
    /\ InStacks(interpretation[1][1].args[1])
    /\ InStacks(interpretation[1][1].args[2])

\* C31: for a literal inside, ontop, above or under of two objects in stacks
\* the heuristic is the column distance of the two, plus the distance of the
\* arm to the nearer of them, plus 3 for every object above the first
\* argument in its stack.
ClearanceCost ==
    OneLiteralInStacks({"inside", "ontop", "above", "under"}) =>
        LET x == interpretation[1][1].args[1]
            y == interpretation[1][1].args[2]
        IN  ret.node = Abs(ColumnOf(x) - ColumnOf(y))
                        + Min(Abs(arm - ColumnOf(x)), Abs(arm - ColumnOf(y)))
                        + 3 * NrAbove(x)

\* C32: for a literal leftof or rightof of two objects in stacks the heuristic
\* of the literal is 0 when the relation holds and the column distance of the
\* two otherwise, and the heuristic of the node is the least value over the
\* conjunctions.
SideDistance ==
    OneLiteralInStacks({"leftof", "rightof"}) =>
        LET lit == interpretation[1][1]
            x == lit.args[1]
            y == lit.args[2]
        IN  /\ ret.goals[1] =
                 IF isInterpretationInCurrentWorldstate(lit, current)
                 THEN Number(0)
                 ELSE Number(Abs(ColumnOf(x) - ColumnOf(y)))
            /\ ret.node = ToNumber(ret.goals[1])

\* ------------------------------------------- what the planner never builds

\* every ball in a stack is at the bottom of its stack or right on a box
BallsRestOnFloorOrBox(stacks_) ==
    \A c \in DOMAIN stacks_ : \A q \in DOMAIN stacks_[c] :
        (objects[stacks_[c][q]].form = "ball" /\ q > 1) =>
            objects[stacks_[c][q - 1]].form = "box"

\* C33: from a state in which every ball in a stack is at index 0 or right on
\* a box, every step along an edge of outgoingEdges leads to such a state.
BallsNeverStacked ==
    [][BallsRestOnFloorOrBox(stacks) => BallsRestOnFloorOrBox(stacks')]_vars

\* no large object is right on a small box
NoLargeInSmallBox(stacks_) ==
    \A c \in DOMAIN stacks_ : \A q \in DOMAIN stacks_[c] :
        (q > 1 /\ objects[stacks_[c][q]].size = "large") =>
            ~ (objects[stacks_[c][q - 1]].form = "box"
               /\ objects[stacks_[c][q - 1]].size = "small")

\* C34: from a state in which no large object is right on a small box, every
\* step along an edge of outgoingEdges leads to such a state.
LargeNeverInSmallBox ==
    [][NoLargeInSmallBox(stacks) => NoLargeInSmallBox(stacks')]_vars

\* ------------------------------------------- the shape of returned formulas

\* C35: no literal of two arguments in a formula interpretCommand returns has
\* the same object as both arguments, for a command that names an object and
\* for one that moves the held object alike.
NoSelfLiteral ==
    (pc = "interpret_done" /\ ret.thrown = Null) =>
        \A lit \in LiteralsOf(ret.formula) :
            Len(lit.args) = 2 => lit.args[1] # lit.args[2]

\* C36: a formula interpretCommand returns has no two conjunctions with the
\* same relation and the same arguments.
NoDuplicateConjunctions ==
    (pc = "interpret_done" /\ ret.thrown = Null) =>
        \A n, q \in DOMAIN ret.formula :
            (/\ ret.formula[n][1].relation = ret.formula[q][1].relation
             /\ ret.formula[n][1].args = ret.formula[q][1].args) => n = q

\* ------------------------------------- two nodes of one search, compared

\* the keys of the worlds two nodes are reached in: a brick, a ball and a box
PairKeys == {"a", "e", "k"}

\* both nodes are the start node of the search: the objects stand in the
\* first column in some order, the arm is over it and holds nothing
InitPair ==
    /\ placed \in { S \in SUBSET PairKeys : Cardinality(S) \in 1..MaxObjs }
    /\ holding = Null
    /\ stacks \in { first \o [c \in 1..(NumCols - 1) |-> << >>] :
                      first \in Arrangements(placed, 1) }
    /\ arm = 0
    /\ IdleSearch
    /\ pc = "pair"
    /\ call = [one |-> current, theOther |-> current]
    /\ ret = [forth |-> 0, back |-> 0]

\* the two nodes compared, the one way and the other
Compared(one, theOther) ==
    [forth |-> compareNodes(one, theOther), back |-> compareNodes(theOther, one)]

\* the first node goes along one of its outgoing edges and is compared with
\* the second
ExpandOne ==
    /\ pc = "pair"
    /\ \E n \in DOMAIN outgoingEdges(call.one) :
          LET to == outgoingEdges(call.one)[n].to
          IN  /\ call' = [call EXCEPT !.one = to]
              /\ ret' = Compared(to, call.theOther)
    /\ UNCHANGED <<worldVars, searchVars, pc>>

\* the second node goes along one of its outgoing edges and is compared with
\* the first
ExpandOther ==
    /\ pc = "pair"
    /\ \E n \in DOMAIN outgoingEdges(call.theOther) :
          LET to == outgoingEdges(call.theOther)[n].to
          IN  /\ call' = [call EXCEPT !.theOther = to]
              /\ ret' = Compared(call.one, to)
    /\ UNCHANGED <<worldVars, searchVars, pc>>

NextPair == ExpandOne \/ ExpandOther

SpecPair == InitPair /\ [][NextPair]_vars

\* C37: two nodes reached from one start node in which every object has one
\* place compare as 0 exactly when they have the same holding, the same arm
\* and the same stacks, and compare the same both ways round.
ReachableNodesCompareExactly ==
    pc = "pair" =>
        /\ (ret.forth = 0) <=> /\ call.one.holding = call.theOther.holding
                               /\ call.one.arm = call.theOther.arm
                               /\ call.one.stacks = call.theOther.stacks
        /\ ret.forth = ret.back

\* two nodes with the same holding and the same arm, the objects of one
\* column of the first found in another column of the second
ReachableNodesWitness ==
    /\ pc = "pair"
    /\ call.one.holding = call.theOther.holding
    /\ call.one.arm = call.theOther.arm
    /\ \E c \in DOMAIN call.one.stacks :
          Len(call.one.stacks[c]) > Len(call.theOther.stacks[c])
    /\ ret.forth = 1 /\ ret.back = 1

\* ------------------------------------------------- transitions undone

\* the nodes the edges with the given command lead to from the node
After(node, command) ==
    { outgoingEdges(node)[n].to :
        n \in { n \in DOMAIN outgoingEdges(node) : outgoingEdges(node)[n].command = command } }

\* C38: in every reachable state with a drop edge the state after the drop
\* has a pick edge, and that pick leads to the state before the drop (same
\* stacks, arm and held object); in every reachable state with an arm-left
\* edge the state after it has an arm-right edge that leads back likewise.
DropAndLeftUndone ==
    pc = "world" =>
        /\ \A dropped \in After(current, "d") :
              /\ After(dropped, "p") # {}
              /\ \A picked \in After(dropped, "p") :
                    /\ picked.stacks = stacks
                    /\ picked.arm = arm
                    /\ picked.holding = holding
        /\ \A left \in After(current, "l") :
              /\ After(left, "r") # {}
              /\ \A right \in After(left, "r") :
                    /\ right.stacks = stacks
                    /\ right.arm = arm
                    /\ right.holding = holding

\* a state reached by a pick away from the first column, in which the held
\* object can be dropped onto another one
DropAndLeftWitness ==
    /\ pc = "world"
    /\ ret = "p"
    /\ arm > 0
    /\ Len(stacks[arm + 1]) >= 1
    /\ After(current, "d") # {}
    /\ After(current, "l") # {}

====
